---- MODULE Spec2Model ----
(***************************************************************************)
(* The WKWebView drag-and-drop bridge of src/wkwebview/drag_drop.rs.       *)
(*                                                                         *)
(* State: the DragDropHandler ivar of every webview, the four Lazy statics *)
(* holding WKWebView's original implementations, and a record of the most  *)
(* recent native callback (what it was given, whom it called in which      *)
(* order, what it returned).  Operations: set_drag_drop_handler and the    *)
(* four extern "C" overrides.                                              *)
(***************************************************************************)
EXTENDS Integers, Sequences, FiniteSets, TLC

VARIABLES
  ivar,         \* webview -> contents of its DragDropHandler ivar (a box, or NULL)
  boxes,        \* number of handler boxes allocated so far by Box::into_raw
  lazy,         \* static -> "uninit" | "ready": the once_cell::Lazy statics
  resolutions,  \* static -> how often its initialising closure has run
  wkwebview,    \* the selectors class!(WKWebView) has an instance method for
  proc,         \* "running" | "aborted"
  call,         \* the most recent native callback
  handles,      \* the boxes returned to callers: box i was made for handles[i]
  log,          \* the native calls so far and the events they delivered
  keep          \* how many native calls are followed and logged; 0: no log

vars == <<ivar, boxes, lazy, resolutions, wkwebview, proc, call, handles, log,
          keep>>

(***************************************************************************)
(* Bounds of the model.                                                    *)
(***************************************************************************)
\* Handler boxes the process may allocate (calls of set_drag_drop_handler).
MaxHandlers == 3
\* Longest NSArray a pasteboard carries.
MaxPaths == 2
\* Fixed-point steps per pixel of a finite CGFloat.
Resolution == 2
\* Native calls followed by the specification that records a log.
MaxCalls == 2

(***************************************************************************)
(* Program constants.                                                      *)
(***************************************************************************)
NSDragOperationCopy == 1
\* Range of the `as i32` casts.
I32Max == 2147483647
I32Min == (-I32Max) - 1
\* An ivar added by add_ivar is zero until set_drag_drop_handler writes it.
NULL == 0
NSFilenamesPboardType == "NSFilenamesPboardType"

Surfaces == {"A", "B"}

\* The four selectors add_drag_drop_methods overrides.
Selectors ==
  {"draggingEntered", "draggingUpdated", "performDragOperation", "draggingExited"}

(***************************************************************************)
(* CGFloat (f64) values.  A finite value of ordinary size is a fixed-point *)
(* number v / Resolution; "big" stands for a finite value of magnitude     *)
(* 2^40, beyond the i32 range, with sign v; "nan" is NaN.                  *)
(***************************************************************************)
Fin(v) == [k |-> "fin", v |-> v]
Big(s) == [k |-> "big", v |-> s]
NaN == [k |-> "nan", v |-> 0]
Px(n) == Fin(n * Resolution)
\* n pixels and one fixed-point step.
PxFrac(n) == Fin(n * Resolution + 1)

\* f64 subtraction, frame.size.height - dl.y.
FSub(a, b) ==
  IF a.k = "nan" \/ b.k = "nan" THEN NaN
  ELSE IF a.k = "fin" /\ b.k = "fin" THEN Fin(a.v - b.v)
  ELSE IF a.k = "big" /\ b.k = "fin" THEN a
  ELSE IF a.k = "fin" /\ b.k = "big" THEN Big(-b.v)
  ELSE IF a.v = b.v THEN Fin(0)
  ELSE a

TruncTowardZero(v) ==
  IF v >= 0 THEN v \div Resolution ELSE -((-v) \div Resolution)

Clamp(n) == IF n > I32Max THEN I32Max ELSE IF n < I32Min THEN I32Min ELSE n

\* Rust's `f as i32`: truncates toward zero, saturates, NaN gives 0.
AsI32(f) ==
  IF f.k = "nan" THEN 0
  ELSE IF f.k = "big" THEN (IF f.v > 0 THEN I32Max ELSE I32Min)
  ELSE Clamp(TruncTowardZero(f.v))

\* Mutant of Position: y is passed on in the native, bottom-left convention.
PositionUnflipped(dl, frame_h) == <<AsI32(dl[1]), AsI32(dl[2])>>

\* Mutant of Position: once a callback has computed a position, later
\* callbacks reuse it.
PositionCached(dl, frame_h) ==
  IF /\ call.trace # <<>>
     /\ call.trace[1].what = "listener"
     /\ call.trace[1].event.kind # "Leave"
    THEN call.trace[1].event.position
  ELSE <<AsI32(dl[1]), AsI32(FSub(frame_h, dl[2]))>>

\* let position = (dl.x as i32, (frame.size.height - dl.y) as i32);
Position(dl, frame_h) == <<AsI32(dl[1]), AsI32(FSub(frame_h, dl[2]))>>

(***************************************************************************)
(* Pasteboards.  An NSString is its sequence of UTF-16 units; 0 is U+0000. *)
(***************************************************************************)
\* "/tmp/a.txt", "/tmp/b.txt" and "a\0b".
PathA == <<47, 116, 109, 112, 47, 97, 46, 116, 120, 116>>
PathB == <<47, 116, 109, 112, 47, 98, 46, 116, 120, 116>>
StrNul == <<97, 0, 98>>

NilObject == [cls |-> "nil"]
NSArrayOf(items) == [cls |-> "NSArray", items |-> items]
NSStringOf(chars) == [cls |-> "NSString", chars |-> chars]
NSDataObject == [cls |-> "NSData"]

\* pb.availableTypeFromArray(&types).is_some()
AvailableTypeFromArray(pb, types) == (pb.types \cap types) # {}

\* pb.propertyListForType(ty): Option<Id<AnyObject>>
PropertyListForType(pb, ty) == IF ty \in pb.types THEN pb.plist ELSE NilObject

RECURSIVE UpToNul(_)
\* CStr::from_ptr(path.UTF8String()): the bytes before the first NUL.
UpToNul(chars) ==
  IF chars = <<>> \/ Head(chars) = 0 THEN <<>>
  ELSE <<Head(chars)>> \o UpToNul(Tail(chars))

\* PathBuf::from(CStr::from_ptr(path.UTF8String()).to_string_lossy().into_owned())
PathBufFrom(obj) == UpToNul(obj.chars)

\* Whether the object answers -UTF8String, which the loop body sends to it.
RespondsToUTF8String(obj) == obj.cls = "NSString"

\* Mutant of CollectPaths: the property list is unwrapped without asking
\* whether the pasteboard has the type.
CollectPathsUnwrapping(drag_info) ==
  LET pl == PropertyListForType(drag_info.pasteboard, NSFilenamesPboardType)
  IN  IF RespondsToUTF8String(pl)
        THEN [threw |-> FALSE, paths |-> <<PathBufFrom(pl)>>]
      ELSE [threw |-> TRUE, paths |-> <<>>]

(***************************************************************************)
(* collect_paths.  propertyListForType returns an Option, so the `for`     *)
(* loop runs over the Option: no iteration for None and one iteration for  *)
(* Some(object), whose body casts the property list object itself to       *)
(* NSString and sends it UTF8String.  An object that does not respond      *)
(* (an NSArray, an NSData) raises an Objective-C exception.                *)
(***************************************************************************)
CollectPaths(drag_info) ==
  LET pb == drag_info.pasteboard
      pl == PropertyListForType(pb, NSFilenamesPboardType)
  IN  IF ~AvailableTypeFromArray(pb, {NSFilenamesPboardType})
        THEN [threw |-> FALSE, paths |-> <<>>]
      ELSE IF pl.cls = "nil" THEN [threw |-> FALSE, paths |-> <<>>]
      ELSE IF RespondsToUTF8String(pl)
        THEN [threw |-> FALSE, paths |-> <<PathBufFrom(pl)>>]
      ELSE [threw |-> TRUE, paths |-> <<>>]

(***************************************************************************)
(* DragDropEvent.                                                          *)
(***************************************************************************)
Enter(paths, position) == [kind |-> "Enter", paths |-> paths, position |-> position]
Over(position) == [kind |-> "Over", position |-> position]
Drop(paths, position) == [kind |-> "Drop", paths |-> paths, position |-> position]
Leave == [kind |-> "Leave"]

(***************************************************************************)
(* Steps a callback records in call.trace, in the order it makes them.     *)
(***************************************************************************)
ListenerStep(handler, event, answer) ==
  [what |-> "listener", handler |-> handler, event |-> event, answer |-> answer]

DefaultStep(imp, this, sel, drag_info, result) ==
  [what |-> "default", imp |-> imp, this |-> this, sel |-> sel,
   drag_info |-> drag_info, result |-> result]

NoCall ==
  [sel |-> "none", this |-> "none", drag_info |-> <<>>, frame_h |-> NaN,
   trace |-> <<>>, ret |-> <<>>, outcome |-> "none"]

\* No native call made, no event delivered.
EmptyLog == [natives |-> <<>>, delivered |-> <<>>]

Init ==
  /\ ivar = [s \in Surfaces |-> NULL]
  /\ boxes = 0
  /\ lazy = [op \in Selectors |-> "uninit"]
  /\ resolutions = [op \in Selectors |-> 0]
  /\ wkwebview \in {Selectors} \cup {Selectors \ {op} : op \in Selectors}
  /\ proc = "running"
  /\ call = NoCall
  /\ handles = <<>>
  /\ log = EmptyLog
  /\ keep = 0

\* Mutant of SetDragDropHandler: a webview keeps the first handler it got.
SetDragDropHandlerKeepingFirst(webview) ==
  /\ proc = "running"
  /\ boxes < MaxHandlers
  /\ boxes' = boxes + 1
  /\ ivar' = IF ivar[webview] = NULL
               THEN [ivar EXCEPT ![webview] = boxes + 1]
             ELSE ivar
  /\ handles' = Append(handles, webview)
  /\ UNCHANGED <<lazy, resolutions, wkwebview, proc, call, log, keep>>

(***************************************************************************)
(* set_drag_drop_handler: boxes the handler, stores the raw pointer in the *)
(* webview's ivar and returns it.  The previous box, if any, is not freed. *)
(***************************************************************************)
SetDragDropHandler(webview) ==
  /\ proc = "running"
  /\ boxes < MaxHandlers
  /\ boxes' = boxes + 1
  /\ ivar' = [ivar EXCEPT ![webview] = boxes + 1]
  /\ handles' = Append(handles, webview)
  /\ UNCHANGED <<lazy, resolutions, wkwebview, proc, call, log, keep>>

\* Mutant of GetHandler: one handler slot for the whole class.
GetHandlerShared(this) == ivar["A"]

\* get_handler: reads the ivar and casts it to a reference, unchecked.
GetHandler(this) == ivar[this]

(***************************************************************************)
(* Outcomes of a callback: "returned"; "panic" (the `.unwrap()` of a Lazy  *)
(* initialiser failed inside an extern "C" fn: the process aborts);        *)
(* "segv" (the listener was called through a NULL ivar and the process     *)
(* died); "abort" / "unwound" (an Objective-C exception left the Rust      *)
(* frame: either the process is terminated, or the exception reaches the   *)
(* caller's handler and the callback is abandoned without a return value). *)
(***************************************************************************)
Fatal == {"panic", "segv", "abort"}

\* What calling through a NULL ivar may do: crash, or run arbitrary code
\* that comes back with an arbitrary bool.
UBOutcomes == {"segv", "wild"}
ExceptionOutcomes == {"abort", "unwound"}

\* The outcomes open to a call of the listener of `this`.
UBChoices(this) == IF GetHandler(this) = NULL THEN UBOutcomes ELSE {"none"}

\* The listener gets called: through a box, or through NULL when the build
\* does not crash on it.
ListenerRuns(this, ub) == GetHandler(this) # NULL \/ ub = "wild"

\* Mutants of Delegates: the default is asked whatever the listener said;
\* the default is never asked.
DelegatesAlways(answer) == TRUE
DelegatesNever(answer) == FALSE

\* `if !listener(event)`: the default is asked when the listener declined.
Delegates(answer) == ~answer

\* Mutant of Resolvable: a missing method resolves to something callable.
ResolvableAlways(sel) == TRUE

\* class!(WKWebView).instance_method(sel).unwrap() succeeds.
Resolvable(sel) == sel \in wkwebview

\* Mutant of Force: the method lookup runs again at every delegation.
ForceAgain(forced) ==
  /\ lazy' = [op \in Selectors |-> IF op \in forced THEN "ready" ELSE lazy[op]]
  /\ resolutions' =
       [op \in Selectors |->
          IF op \in forced THEN resolutions[op] + 1 ELSE resolutions[op]]

\* Mutant of Force: every callback resolves all four defaults.
ForceAll(forced) ==
  /\ lazy' = [op \in Selectors |-> "ready"]
  /\ resolutions' =
       [op \in Selectors |->
          IF lazy[op] = "uninit" THEN resolutions[op] + 1 ELSE resolutions[op]]

\* Dereferencing a Lazy static runs its closure on first use only.
Force(forced) ==
  /\ lazy' = [op \in Selectors |-> IF op \in forced THEN "ready" ELSE lazy[op]]
  /\ resolutions' =
       [op \in Selectors |->
          IF op \in forced /\ lazy[op] = "uninit"
            THEN resolutions[op] + 1 ELSE resolutions[op]]

\* The events a callback handed to a handler, in order.
RECURSIVE Deliveries(_, _)
Deliveries(this, trace) ==
  IF trace = <<>> THEN <<>>
  ELSE IF Head(trace).what = "listener" /\ Head(trace).handler # NULL
    THEN <<[this |-> this, kind |-> Head(trace).event.kind]>>
           \o Deliveries(this, Tail(trace))
  ELSE Deliveries(this, Tail(trace))

\* The log after a native call, when one is kept.
Logged(this, sel, trace) ==
  IF keep # 0
    THEN [natives |-> Append(log.natives, [this |-> this, sel |-> sel]),
          delivered |-> log.delivered \o Deliveries(this, trace)]
  ELSE log

\* Mutant of Finish: a drop releases the handler of its webview.
FinishReleasing(this, sel, drag_info, frame_h, trace, ret, outcome, forced) ==
  /\ call' = [sel |-> sel, this |-> this, drag_info |-> drag_info,
              frame_h |-> frame_h, trace |-> trace, ret |-> ret,
              outcome |-> outcome]
  /\ proc' = IF outcome \in Fatal THEN "aborted" ELSE "running"
  /\ Force(forced)
  /\ keep = 0 \/ Len(log.natives) < keep
  /\ log' = Logged(this, sel, trace)
  /\ ivar' = IF sel = "performDragOperation"
               THEN [ivar EXCEPT ![this] = NULL]
             ELSE ivar
  /\ UNCHANGED <<boxes, wkwebview, handles, keep>>

\* The callback is over: record it.
Finish(this, sel, drag_info, frame_h, trace, ret, outcome, forced) ==
  /\ call' = [sel |-> sel, this |-> this, drag_info |-> drag_info,
              frame_h |-> frame_h, trace |-> trace, ret |-> ret,
              outcome |-> outcome]
  /\ proc' = IF outcome \in Fatal THEN "aborted" ELSE "running"
  /\ Force(forced)
  /\ keep = 0 \/ Len(log.natives) < keep
  /\ log' = Logged(this, sel, trace)
  /\ UNCHANGED <<ivar, boxes, wkwebview, handles, keep>>

\* NSDragOperation values a default may return: none, copy, move.
DragOperations == {0, 1, 16}

\* Mutant of UpdatedResult: the sentinel is passed on.
UpdatedVerbatim(os_operation) == os_operation

\* dragging_updated's treatment of the default's result.
UpdatedResult(os_operation) ==
  IF os_operation = 0 THEN NSDragOperationCopy ELSE os_operation

\* Mutant of EnteredResult: the sentinel is replaced as in dragging_updated.
EnteredSubstituted(os_operation) ==
  IF os_operation = 0 THEN NSDragOperationCopy ELSE os_operation

\* dragging_entered's treatment of the default's result.
EnteredResult(os_operation) == os_operation

\* Mutant of PerformResult: a declined drop reports success all the same.
PerformAlwaysYes(os_result) == TRUE

\* perform_drag_operation's treatment of the default's result.
PerformResult(os_result) == os_result

DraggingUpdated(this, drag_info, frame_h, answer) ==
  /\ proc = "running"
  /\ LET sel == "draggingUpdated"
         position == Position(drag_info.location, frame_h)
         asked == ListenerStep(GetHandler(this), Over(position), answer)
     IN  \E ub \in UBChoices(this) :
           IF ~ListenerRuns(this, ub)
             THEN Finish(this, sel, drag_info, frame_h, <<>>, <<>>, "segv", {})
           ELSE IF Delegates(answer)
             THEN IF ~Resolvable(sel)
                    THEN Finish(this, sel, drag_info, frame_h, <<asked>>, <<>>,
                                "panic", {})
                  ELSE \E os_operation \in DragOperations :
                         Finish(this, sel, drag_info, frame_h,
                                <<asked, DefaultStep(sel, this, sel, drag_info,
                                                     <<os_operation>>)>>,
                                <<UpdatedResult(os_operation)>>, "returned",
                                {sel})
           ELSE Finish(this, sel, drag_info, frame_h, <<asked>>,
                       <<NSDragOperationCopy>>, "returned", {})

DraggingEntered(this, drag_info, frame_h, answer) ==
  /\ proc = "running"
  /\ LET sel == "draggingEntered"
         collected == CollectPaths(drag_info)
         position == Position(drag_info.location, frame_h)
         asked == ListenerStep(GetHandler(this),
                               Enter(collected.paths, position), answer)
     IN  IF collected.threw
           THEN \E exc \in ExceptionOutcomes :
                  Finish(this, sel, drag_info, frame_h, <<>>, <<>>, exc, {})
         ELSE \E ub \in UBChoices(this) :
           IF ~ListenerRuns(this, ub)
             THEN Finish(this, sel, drag_info, frame_h, <<>>, <<>>, "segv", {})
           ELSE IF Delegates(answer)
             THEN IF ~Resolvable(sel)
                    THEN Finish(this, sel, drag_info, frame_h, <<asked>>, <<>>,
                                "panic", {})
                  ELSE \E os_operation \in DragOperations :
                         Finish(this, sel, drag_info, frame_h,
                                <<asked, DefaultStep(sel, this, sel, drag_info,
                                                     <<os_operation>>)>>,
                                <<EnteredResult(os_operation)>>, "returned",
                                {sel})
           ELSE Finish(this, sel, drag_info, frame_h, <<asked>>,
                       <<NSDragOperationCopy>>, "returned", {})

PerformDragOperation(this, drag_info, frame_h, answer) ==
  /\ proc = "running"
  /\ LET sel == "performDragOperation"
         collected == CollectPaths(drag_info)
         position == Position(drag_info.location, frame_h)
         asked == ListenerStep(GetHandler(this),
                               Drop(collected.paths, position), answer)
     IN  IF collected.threw
           THEN \E exc \in ExceptionOutcomes :
                  Finish(this, sel, drag_info, frame_h, <<>>, <<>>, exc, {})
         ELSE \E ub \in UBChoices(this) :
           IF ~ListenerRuns(this, ub)
             THEN Finish(this, sel, drag_info, frame_h, <<>>, <<>>, "segv", {})
           ELSE IF Delegates(answer)
             THEN IF ~Resolvable(sel)
                    THEN Finish(this, sel, drag_info, frame_h, <<asked>>, <<>>,
                                "panic", {})
                  ELSE \E os_result \in BOOLEAN :
                         Finish(this, sel, drag_info, frame_h,
                                <<asked, DefaultStep(sel, this, sel, drag_info,
                                                     <<os_result>>)>>,
                                <<PerformResult(os_result)>>, "returned", {sel})
           ELSE Finish(this, sel, drag_info, frame_h, <<asked>>, <<TRUE>>,
                       "returned", {})

DraggingExited(this, drag_info, frame_h, answer) ==
  /\ proc = "running"
  /\ LET sel == "draggingExited"
         asked == ListenerStep(GetHandler(this), Leave, answer)
     IN  \E ub \in UBChoices(this) :
           IF ~ListenerRuns(this, ub)
             THEN Finish(this, sel, drag_info, frame_h, <<>>, <<>>, "segv", {})
           ELSE IF Delegates(answer)
             THEN IF ~Resolvable(sel)
                    THEN Finish(this, sel, drag_info, frame_h, <<asked>>, <<>>,
                                "panic", {})
                  ELSE Finish(this, sel, drag_info, frame_h,
                              <<asked, DefaultStep(sel, this, sel, drag_info,
                                                   <<>>)>>,
                              <<>>, "returned", {sel})
           ELSE Finish(this, sel, drag_info, frame_h, <<asked>>, <<>>,
                       "returned", {})

(***************************************************************************)
(* Inputs.                                                                 *)
(***************************************************************************)
RECURSIVE SeqsUpTo(_, _)
SeqsUpTo(S, n) ==
  IF n = 0 THEN {<<>>}
  ELSE LET shorter == SeqsUpTo(S, n - 1)
       IN  shorter \cup {Append(q, x) : q \in shorter, x \in S}

Pasteboard(types, plist) == [types |-> types, plist |-> plist]
NoFiles == Pasteboard({"public.utf8-plain-text"}, NilObject)
Empty == Pasteboard({}, NilObject)
Files(plist) == Pasteboard({NSFilenamesPboardType}, plist)

FilePasteboards ==
  {Files(NSArrayOf(items)) : items \in SeqsUpTo({PathA, PathB}, MaxPaths)}
  \cup {Files(NSStringOf(c)) : c \in {PathA, StrNul}}
  \cup {Files(NilObject), Files(NSDataObject)}

DragInfo(location, pb) == [location |-> location, pasteboard |-> pb]

\* The documented example: pointer at native (10, 90) in a frame 100 high.
Loc1090 == <<Px(10), Px(90)>>
Frame100 == Px(100)

\* <<pointer location, frame height>> pairs: the example; a fractional
\* negative x and a fractional y; an empty frame; the pointer above the
\* frame (y > h); values beyond the i32 range; NaN.
Placements ==
  { <<Loc1090, Frame100>>,
    <<<<PxFrac(-3), PxFrac(9)>>, Frame100>>,
    <<<<Px(10), Px(0)>>, Px(0)>>,
    <<<<Px(10), Px(0)>>, Frame100>>,
    <<<<Px(10), PxFrac(9)>>, Px(0)>>,
    <<<<Big(1), Px(0)>>, Big(1)>>,
    <<<<Big(-1), Big(1)>>, Big(1)>>,
    <<<<NaN, Px(90)>>, Big(1)>> }

(***************************************************************************)
(* Next-state relation over given webviews and <<drag session, frame       *)
(* height>> pairs: the application attaches handlers and the toolkit sends *)
(* the four messages, in any order.                                        *)
(***************************************************************************)
NextOver(surfaces, inputs) ==
  \/ \E webview \in surfaces : SetDragDropHandler(webview)
  \/ \E this \in surfaces, in \in inputs, answer \in BOOLEAN :
       \/ DraggingEntered(this, in[1], in[2], answer)
       \/ DraggingUpdated(this, in[1], in[2], answer)
       \/ PerformDragOperation(this, in[1], in[2], answer)
       \/ DraggingExited(this, in[1], in[2], answer)

\* Inputs of the main specification: one pointer location, a payload
\* without files and one with two file names.
Sessions ==
  {DragInfo(Loc1090, pb) : pb \in {NoFiles, Files(NSArrayOf(<<PathA, PathB>>))}}

Next == NextOver(Surfaces, Sessions \X {Frame100})

Spec == Init /\ [][Next]_vars

\* The platform as it is: WKWebView implements the four selectors.
InitStock == Init /\ wkwebview = Selectors

\* Every payload, at one pointer location, on one webview.
NextCollect ==
  NextOver({"A"},
           {DragInfo(Loc1090, pb) : pb \in {NoFiles, Empty} \cup FilePasteboards}
             \X {Frame100})

SpecCollect == InitStock /\ [][NextCollect]_vars

\* Every placement, with a payload without files, on one webview.
NextTranslate ==
  NextOver({"A"}, {<<DragInfo(p[1], NoFiles), p[2]>> : p \in Placements})

SpecTranslate == InitStock /\ [][NextTranslate]_vars

\* The stock platform, with a log of the MaxCalls native calls followed.
InitSequence ==
  /\ ivar = [s \in Surfaces |-> NULL]
  /\ boxes = 0
  /\ lazy = [op \in Selectors |-> "uninit"]
  /\ resolutions = [op \in Selectors |-> 0]
  /\ wkwebview = Selectors
  /\ proc = "running"
  /\ call = NoCall
  /\ handles = <<>>
  /\ log = EmptyLog
  /\ keep = MaxCalls

\* Attaches and up to MaxCalls native calls on one webview, in any order.
\* The two sessions, and one more place for the pointer.
Moves ==
  (Sessions \X {Frame100})
    \cup {<<DragInfo(<<Px(10), Px(0)>>, NoFiles), Frame100>>}

NextSequence == NextOver({"A"}, Moves)

SpecSequence == InitSequence /\ [][NextSequence]_vars

(***************************************************************************)
(* What the most recent callback did.                                      *)
(***************************************************************************)
IsListener(step) == step.what = "listener"
IsDefault(step) == step.what = "default"
Listened == SelectSeq(call.trace, IsListener)
Defaulted == SelectSeq(call.trace, IsDefault)
ListenerSaid(answer) == \E i \in DOMAIN Listened : Listened[i].answer = answer

\* The listener declined and WKWebView has the operation to fall back on.
DeclinedOn(sel) ==
  call.sel = sel /\ ListenerSaid(FALSE) /\ Resolvable(sel)

\* The callback returned after asking exactly the default of its own
\* operation, once.
DelegatedOnce(sel) ==
  /\ call.outcome = "returned"
  /\ Len(Defaulted) = 1
  /\ Defaulted[1].imp = sel

(***************************************************************************)
(* C1: in each of the four callbacks, on any webview and after any earlier *)
(* callbacks, a listener that returns true means no default is invoked     *)
(* and the callback returns the consumed result: NSDragOperationCopy (1)   *)
(* for enter and update, YES for drop, nothing for exit.                   *)
(***************************************************************************)
C1_ConsumedNeverDelegates ==
  (call.sel \in Selectors /\ ListenerSaid(TRUE)) =>
    /\ Defaulted = <<>>
    /\ call.outcome = "returned"
    /\ call.ret = (IF call.sel = "draggingExited" THEN <<>>
                   ELSE IF call.sel = "performDragOperation" THEN <<TRUE>>
                   ELSE <<1>>)

\* A drop consumed on webview B after the drop default had been resolved by
\* an earlier, declined drop.
C1_Witness ==
  /\ call.sel = "performDragOperation"
  /\ call.this = "B"
  /\ ListenerSaid(TRUE)
  /\ lazy["performDragOperation"] = "ready"
  /\ call.ret = <<TRUE>>

(***************************************************************************)
(* C2: an update the listener declined returns 1 (copy) when the default   *)
(* draggingUpdated returns the sentinel 0 and the default's own value for  *)
(* every other code; so no update callback ever returns 0.                 *)
(***************************************************************************)
C2_UpdateSubstitutesCopy ==
  /\ DeclinedOn("draggingUpdated") =>
       /\ DelegatedOnce("draggingUpdated")
       /\ call.ret = (IF Defaulted[1].result = <<0>> THEN <<1>>
                      ELSE Defaulted[1].result)
  /\ (call.sel = "draggingUpdated" /\ call.outcome = "returned") =>
       call.ret # <<0>>

C2_Witness ==
  /\ DeclinedOn("draggingUpdated")
  /\ Len(Defaulted) = 1
  /\ Defaulted[1].result = <<0>>
  /\ call.ret = <<1>>

(***************************************************************************)
(* C3: an enter the listener declined invokes the default draggingEntered  *)
(* exactly once and returns its result unchanged, the sentinel 0 included. *)
(***************************************************************************)
C3_EnterReturnsDefaultVerbatim ==
  DeclinedOn("draggingEntered") =>
    /\ DelegatedOnce("draggingEntered")
    /\ call.ret = Defaulted[1].result

C3_Witness ==
  /\ DeclinedOn("draggingEntered")
  /\ Len(Defaulted) = 1
  /\ Defaulted[1].result = <<0>>
  /\ call.ret = <<0>>

(***************************************************************************)
(* C4: a drop the listener declined invokes the default                    *)
(* performDragOperation exactly once and returns its boolean unchanged; a  *)
(* drop returns NO only when the listener declined and the default         *)
(* returned NO.                                                            *)
(***************************************************************************)
C4_DropReturnsDefaultVerbatim ==
  /\ DeclinedOn("performDragOperation") =>
       /\ DelegatedOnce("performDragOperation")
       /\ call.ret = Defaulted[1].result
  /\ (call.sel = "performDragOperation" /\ call.ret = <<FALSE>>) =>
       /\ ListenerSaid(FALSE)
       /\ Len(Defaulted) = 1
       /\ Defaulted[1].result = <<FALSE>>

C4_Witness ==
  /\ DeclinedOn("performDragOperation")
  /\ Len(Defaulted) = 1
  /\ Defaulted[1].result = <<FALSE>>
  /\ call.ret = <<FALSE>>

(***************************************************************************)
(* C5: an exit whose Leave event the listener declined invokes the default *)
(* draggingExited exactly once, and no other default.                      *)
(***************************************************************************)
C5_ExitDelegatesOnce ==
  DeclinedOn("draggingExited") =>
    /\ DelegatedOnce("draggingExited")
    /\ Listened[1].event = Leave

C5_Witness ==
  /\ DeclinedOn("draggingExited")
  /\ Len(Defaulted) = 1
  /\ Defaulted[1].imp = "draggingExited"
  /\ Defaulted[1].this = call.this

(***************************************************************************)
(* C6: isolation.  With distinct handlers attached to webviews A and B, a  *)
(* callback on one webview calls only the handler in that webview's ivar,  *)
(* never the other's, in every interleaving of attaches and callbacks.     *)
(***************************************************************************)
C6_Isolation ==
  [][(/\ call' # call
      /\ \A s \in Surfaces : ivar[s] # NULL
      /\ ivar["A"] # ivar["B"])
     => \A i \in DOMAIN call'.trace :
          IsListener(call'.trace[i]) =>
            /\ call'.trace[i].handler = ivar[call'.this]
            /\ \A other \in Surfaces \ {call'.this} :
                 call'.trace[i].handler # ivar[other]]_vars

\* A callback on A reached A's handler while B holds another one.
C6_Witness ==
  /\ call.this = "A"
  /\ ivar["A"] # NULL /\ ivar["B"] # NULL /\ ivar["A"] # ivar["B"]
  /\ Len(Listened) = 1
  /\ Listened[1].handler = ivar["A"]

(***************************************************************************)
(* C7: no callback runs on a webview without a handler: whenever one of    *)
(* the four callbacks has run on a webview, that webview's ivar holds a    *)
(* handler (get_handler never reads an unset ivar).  Callbacks leave the   *)
(* ivar alone, so an ivar that is NULL after a callback was NULL during    *)
(* it.                                                                     *)
(***************************************************************************)
C7_HandlerAttachedBeforeDispatch ==
  call.sel \in Selectors => ivar[call.this] # NULL

(***************************************************************************)
(* C8: for a pasteboard that advertises NSFilenamesPboardType with the     *)
(* file names p1..pn, an enter or drop on a webview with a handler         *)
(* delivers the event with paths p1..pn, in payload order and at full      *)
(* length.                                                                 *)
(***************************************************************************)
AdvertisesFiles(drag_info) == NSFilenamesPboardType \in drag_info.pasteboard.types

C8_PathsInPayloadOrder ==
  (/\ call.sel \in {"draggingEntered", "performDragOperation"}
   /\ ivar[call.this] # NULL
   /\ AdvertisesFiles(call.drag_info)
   /\ call.drag_info.pasteboard.plist.cls = "NSArray")
  => /\ Len(Listened) = 1
     /\ Listened[1].event.paths =
          [i \in DOMAIN call.drag_info.pasteboard.plist.items |->
             UpToNul(call.drag_info.pasteboard.plist.items[i])]

(***************************************************************************)
(* C9: for a pasteboard that does not advertise NSFilenamesPboardType,     *)
(* path collection raises nothing and yields the empty sequence: the enter *)
(* or drop callback returns, having handed the handler an Enter or Drop    *)
(* event whose paths are the empty sequence.                               *)
(***************************************************************************)
C9_NoFileTypeGivesEmptyPaths ==
  (/\ call.sel \in {"draggingEntered", "performDragOperation"}
   /\ ~AdvertisesFiles(call.drag_info))
  => /\ call.outcome \notin ExceptionOutcomes
     /\ ivar[call.this] # NULL =>
          /\ call.outcome = "returned"
          /\ Len(Listened) = 1
          /\ Listened[1].event.kind =
               (IF call.sel = "draggingEntered" THEN "Enter" ELSE "Drop")
          /\ Listened[1].event.paths = <<>>

C9_Witness ==
  /\ call.sel = "draggingEntered"
  /\ ~AdvertisesFiles(call.drag_info)
  /\ ivar[call.this] # NULL
  /\ Len(Listened) = 1
  /\ Listened[1].event = Enter(<<>>, <<10, 10>>)

(***************************************************************************)
(* C10: position.                                                          *)
(***************************************************************************)
\* a <= b on CGFloat values.
FLeq(a, b) ==
  IF a.k = "nan" \/ b.k = "nan" THEN FALSE
  ELSE IF a.k = "fin" /\ b.k = "fin" THEN a.v <= b.v
  ELSE IF a.k = "big" /\ b.k = "fin" THEN a.v < 0
  ELSE IF a.k = "fin" /\ b.k = "big" THEN b.v > 0
  ELSE a.v <= b.v

\* The callbacks that report a position, with the listener having been
\* handed the event.
Positioned ==
  /\ call.sel \in {"draggingEntered", "draggingUpdated", "performDragOperation"}
  /\ Len(Listened) = 1

\* The claim's range: x a number, h >= 0 and 0 <= y <= h.
InRange ==
  /\ call.drag_info.location[1].k # "nan"
  /\ FLeq(Px(0), call.frame_h)
  /\ FLeq(Px(0), call.drag_info.location[2])
  /\ FLeq(call.drag_info.location[2], call.frame_h)

\* n is f truncated toward zero, as a mathematical integer.
IsTruncationOf(n, f) ==
  /\ f.k = "fin"
  /\ IF f.v >= 0
       THEN n >= 0 /\ n * Resolution <= f.v /\ f.v < (n + 1) * Resolution
     ELSE n <= 0 /\ n * Resolution >= f.v /\ f.v > (n - 1) * Resolution

\* n is f truncated toward zero where that fits an i32, and the nearest
\* i32 bound where it does not; NaN gives 0.
IsSaturatedTruncationOf(n, f) ==
  IF f.k = "nan" THEN n = 0
  ELSE IF f.k = "big" THEN n = (IF f.v > 0 THEN I32Max ELSE I32Min)
  ELSE IsTruncationOf(n, f)

(***************************************************************************)
(* C10 as stated: in Enter, Over and Drop events, for every h >= 0 and     *)
(* 0 <= y <= h, the position is (x truncated toward zero, h - y truncated  *)
(* toward zero).                                                           *)
(***************************************************************************)
C10_PositionIsTruncation ==
  (Positioned /\ InRange) =>
    /\ IsTruncationOf(Listened[1].event.position[1],
                      call.drag_info.location[1])
    /\ IsTruncationOf(Listened[1].event.position[2],
                      FSub(call.frame_h, call.drag_info.location[2]))

(***************************************************************************)
(* C10 amended: in Enter, Over and Drop events alike, for every h >= 0 and *)
(* 0 <= y <= h, each component is the truncation toward zero of x and of   *)
(* h - y when that fits a 32-bit signed integer, and the nearest i32 bound *)
(* when it does not; native (10, 90) in a frame 100 high gives (10, 10).   *)
(***************************************************************************)
C10_PositionIsSaturatedTruncation ==
  (Positioned /\ InRange) =>
    /\ IsSaturatedTruncationOf(Listened[1].event.position[1],
                               call.drag_info.location[1])
    /\ IsSaturatedTruncationOf(Listened[1].event.position[2],
                               FSub(call.frame_h, call.drag_info.location[2]))
    /\ (call.drag_info.location = Loc1090 /\ call.frame_h = Frame100) =>
         Listened[1].event.position = <<10, 10>>

C10_Witness ==
  /\ call.sel = "performDragOperation"
  /\ InRange
  /\ call.drag_info.location = <<PxFrac(-3), PxFrac(9)>>
  /\ call.frame_h = Frame100
  /\ Len(Listened) = 1
  /\ Listened[1].event.position = <<-2, 90>>

\* The boxes made for a webview, and the one made last (NULL when none).
AttachedTo(s) == {i \in DOMAIN handles : handles[i] = s}
LatestFor(s) ==
  IF AttachedTo(s) = {} THEN NULL
  ELSE CHOOSE i \in AttachedTo(s) : \A j \in AttachedTo(s) : j <= i

(***************************************************************************)
(* C11: set_drag_drop_handler on a webview that already has a handler      *)
(* overwrites the ivar: at any time each webview's ivar holds exactly the  *)
(* box made by the latest set_drag_drop_handler on it, and every callback  *)
(* calls that box only, never one attached to the webview earlier.         *)
(***************************************************************************)
C11_LatestHandlerOnly ==
  /\ [](\A s \in Surfaces : ivar[s] = LatestFor(s))
  /\ [][call' # call =>
         \A i \in DOMAIN call'.trace :
           IsListener(call'.trace[i]) =>
             /\ call'.trace[i].handler = LatestFor(call'.this)
             /\ \A h1 \in AttachedTo(call'.this) \ {LatestFor(call'.this)} :
                  call'.trace[i].handler # h1]_vars

\* A callback on A after A was given a second handler called that second
\* handler.
C11_Witness ==
  /\ call.this = "A"
  /\ Cardinality(AttachedTo("A")) >= 2
  /\ Len(Listened) = 1
  /\ Listened[1].handler = LatestFor("A")
  /\ Listened[1].handler \notin {NULL, 1}

\* The event kind each callback builds.
KindOf(sel) ==
  CASE sel = "draggingEntered" -> "Enter"
    [] sel = "draggingUpdated" -> "Over"
    [] sel = "performDragOperation" -> "Drop"
    [] sel = "draggingExited" -> "Leave"

(***************************************************************************)
(* C12: over any sequence of native callbacks the handlers receive exactly *)
(* one event per native call, in call order and kind for kind (entered ->  *)
(* Enter, updated -> Over, performDragOperation -> Drop, exited -> Leave): *)
(* nothing dropped, duplicated, reordered or added.                        *)
(***************************************************************************)
C12_OneEventPerNativeCall ==
  log.delivered =
    [i \in DOMAIN log.natives |->
       [this |-> log.natives[i].this, kind |-> KindOf(log.natives[i].sel)]]

(***************************************************************************)
(* C13: each of the four Lazy statics runs its method lookup at most once  *)
(* in the process, whatever callbacks run on whatever webviews; once       *)
(* resolved it stays resolved and is not resolved again; and a delegation  *)
(* always calls the resolved implementation of the callback's own          *)
(* selector.                                                               *)
(***************************************************************************)
C13_ResolvedAtMostOnce ==
  /\ [](\A op \in Selectors :
          /\ resolutions[op] <= 1
          /\ lazy[op] = "ready" <=> resolutions[op] = 1)
  /\ [][\A op \in Selectors :
          lazy[op] = "ready" =>
            lazy'[op] = "ready" /\ resolutions'[op] = resolutions[op]]_vars
  /\ [](\A i \in DOMAIN Defaulted :
          /\ Defaulted[i].imp = call.sel
          /\ lazy[Defaulted[i].imp] = "ready")

\* All four defaults have been resolved, once each, and webview B has just
\* delegated an exit.
C13_Witness ==
  /\ \A op \in Selectors : lazy[op] = "ready" /\ resolutions[op] = 1
  /\ call.this = "B"
  /\ DeclinedOn("draggingExited")
  /\ Len(Defaulted) = 1

(***************************************************************************)
(* C14 as stated: by the end of the first native drag callback on any      *)
(* webview, hence after every callback that returned, all four defaults    *)
(* are resolved, whatever the listener answered.                           *)
(***************************************************************************)
C14_AllResolvedByFirstCallback ==
  (call.sel \in Selectors /\ call.outcome = "returned") =>
    \A op \in Selectors : lazy[op] = "ready"

(***************************************************************************)
(* C14 amended: each default is resolved separately and only on demand.    *)
(* Nothing is resolved before a callback delegates; a step resolves the    *)
(* default of an operation only if it is a callback of that operation in   *)
(* which the listener declined and that default is called; and after a     *)
(* declined callback of an operation WKWebView implements, that            *)
(* operation's default is resolved.                                        *)
(***************************************************************************)
C14_ResolvedOnFirstDelegation ==
  /\ [](call = NoCall => \A op \in Selectors : lazy[op] = "uninit")
  /\ [][\A op \in Selectors :
          lazy'[op] # lazy[op] =>
            /\ call'.sel = op
            /\ \E i \in DOMAIN call'.trace :
                 IsListener(call'.trace[i]) /\ ~call'.trace[i].answer
            /\ \E i \in DOMAIN call'.trace :
                 IsDefault(call'.trace[i]) /\ call'.trace[i].imp = op]_vars
  /\ [](\A op \in Selectors : DeclinedOn(op) => lazy[op] = "ready")

\* The first delegation of the run, a declined update that returned: only
\* the update default is resolved.
C14_Witness ==
  /\ DeclinedOn("draggingUpdated")
  /\ call.outcome = "returned"
  /\ ivar[call.this] # NULL
  /\ lazy["draggingUpdated"] = "ready"
  /\ \A op \in Selectors \ {"draggingUpdated"} : lazy[op] = "uninit"

\* WKWebView lacks the method of the callback that ran.
LacksOwnMethod == call.sel \in Selectors /\ call.sel \notin wkwebview

(***************************************************************************)
(* C15 as stated: when WKWebView lacks one of the four methods, no drag    *)
(* callback completes normally, and a declined event is never silently     *)
(* dropped.                                                                *)
(***************************************************************************)
C15_NoPartialFunctionality ==
  /\ (call.sel \in Selectors /\ wkwebview # Selectors) =>
       call.outcome # "returned"
  /\ (LacksOwnMethod /\ ListenerSaid(FALSE)) => call.outcome # "returned"

(***************************************************************************)
(* C15 amended: the lookup is made only when a callback delegates.  A      *)
(* callback whose listener declined while WKWebView lacks that callback's  *)
(* method panics at the lookup: it calls no default, returns nothing, the  *)
(* process is aborted and no callback runs afterwards; the missing default *)
(* is never resolved.  A callback panics in no other case.                 *)
(***************************************************************************)
C15_DeclinedWithoutDefaultAborts ==
  /\ []((LacksOwnMethod /\ ListenerSaid(FALSE)) =>
          /\ call.outcome = "panic"
          /\ Defaulted = <<>>
          /\ call.ret = <<>>
          /\ proc = "aborted")
  /\ [](call.outcome = "panic" => LacksOwnMethod /\ ListenerSaid(FALSE))
  /\ [](\A op \in Selectors \ wkwebview : lazy[op] = "uninit")
  /\ [][proc = "aborted" => call' = call /\ proc' = "aborted"]_vars

\* A drop declined by the handler of A on a WKWebView without
\* performDragOperation: aborted.
C15_Witness ==
  /\ call.sel = "performDragOperation"
  /\ call.this = "A"
  /\ ivar["A"] # NULL
  /\ "performDragOperation" \notin wkwebview
  /\ ListenerSaid(FALSE)
  /\ call.outcome = "panic"
  /\ proc = "aborted"

(***************************************************************************)
(* C16: for a pasteboard that advertises NSFilenamesPboardType but whose   *)
(* property list is absent (nil) or is not an array of strings, path       *)
(* collection raises nothing and the enter or drop callback hands the      *)
(* handler its Enter or Drop event with the empty path sequence.           *)
(***************************************************************************)
C16_MalformedGivesEmptyPaths ==
  (/\ call.sel \in {"draggingEntered", "performDragOperation"}
   /\ ivar[call.this] # NULL
   /\ AdvertisesFiles(call.drag_info)
   /\ call.drag_info.pasteboard.plist.cls # "NSArray")
  => /\ call.outcome \notin ExceptionOutcomes
     /\ Len(Listened) = 1
     /\ Listened[1].event.kind = KindOf(call.sel)
     /\ Listened[1].event.paths = <<>>

\* What each callback returns for a declined event, from the default's
\* result.
DeclinedReturn(sel, result) ==
  IF sel = "draggingUpdated" /\ result = <<0>> THEN <<1>> ELSE result

\* What each callback returns for a consumed event.
ConsumedReturn(sel) ==
  CASE sel \in {"draggingEntered", "draggingUpdated"} -> <<1>>
    [] sel = "performDragOperation" -> <<TRUE>>
    [] sel = "draggingExited" -> <<>>

(***************************************************************************)
(* C17: history independence.  After any sequence of earlier attaches and  *)
(* callbacks, a callback on a webview with a handler builds the event of   *)
(* its own kind from its own drag_info and frame height alone, and         *)
(* returns a value fixed by its selector, the handler's answer and the     *)
(* default's result; whether the event is built at all depends on the      *)
(* pasteboard alone.  So two runs that differ in their earlier callbacks   *)
(* agree on the event and the return value of the same call, and no        *)
(* callback needs an earlier one.                                          *)
(***************************************************************************)
C17_HistoryIndependent ==
  (call.sel \in Selectors /\ ivar[call.this] # NULL) =>
    LET collects == call.sel \in {"draggingEntered", "performDragOperation"}
        collected == CollectPaths(call.drag_info)
    IN  IF collects /\ collected.threw
          THEN call.trace = <<>> /\ call.ret = <<>>
        ELSE
          /\ Len(Listened) = 1
          /\ call.outcome = "returned"
          /\ Listened[1].event.kind = KindOf(call.sel)
          /\ collects => Listened[1].event.paths = collected.paths
          /\ call.sel # "draggingExited" =>
               /\ IsSaturatedTruncationOf(Listened[1].event.position[1],
                                          call.drag_info.location[1])
               /\ IsSaturatedTruncationOf(
                    Listened[1].event.position[2],
                    FSub(call.frame_h, call.drag_info.location[2]))
          /\ IF Listened[1].answer
               THEN Defaulted = <<>> /\ call.ret = ConsumedReturn(call.sel)
             ELSE /\ Len(Defaulted) = 1
                  /\ call.ret = DeclinedReturn(call.sel, Defaulted[1].result)

\* A drop that was not preceded by an enter: an update at one place, then
\* the drop at another, which delivered its own position.
C17_Witness ==
  /\ Len(log.natives) = 2
  /\ log.natives[1].sel = "draggingUpdated"
  /\ log.natives[2].sel = "performDragOperation"
  /\ log.delivered = <<[this |-> "A", kind |-> "Over"],
                       [this |-> "A", kind |-> "Drop"]>>
  /\ call.sel = "performDragOperation"
  /\ call.drag_info.location = <<Px(10), Px(0)>>
  /\ Len(Listened) = 1
  /\ Listened[1].event.position = <<10, 100>>
  /\ call.outcome = "returned"

(***************************************************************************)
(* C18: within every callback the listener is called exactly once, before  *)
(* any default; a default is called at most once, only after the listener  *)
(* returned false, and it is the default of the callback's own selector,   *)
(* called with the callback's own this, selector and drag_info.            *)
(***************************************************************************)
C18_ListenerOnceThenOwnDefault ==
  call.sel \in Selectors =>
    /\ Len(Listened) = 1
    /\ IsListener(call.trace[1])
    /\ Len(Defaulted) <= 1
    /\ \A i \in DOMAIN Defaulted :
         /\ ~Listened[1].answer
         /\ Defaulted[i].imp = call.sel
         /\ Defaulted[i].sel = call.sel
         /\ Defaulted[i].this = call.this
         /\ Defaulted[i].drag_info = call.drag_info

(***************************************************************************)
(* C19: the four callbacks leave every webview's ivar as it was, whatever  *)
(* the listener and the default return and however the callback ends; an   *)
(* ivar changes only in a set_drag_drop_handler step on that same webview, *)
(* which stores the box it has just made.                                  *)
(***************************************************************************)
C19_CallbacksKeepRegistry ==
  [][/\ (call' # call \/ handles' = handles) => ivar' = ivar
     /\ \A s \in Surfaces :
          ivar'[s] # ivar[s] =>
            /\ handles' = Append(handles, s)
            /\ ivar'[s] = Len(handles')
            /\ call' = call]_vars

\* A declined drop on B that returned, with both handlers still in their
\* ivars.
C19_Witness ==
  /\ call.sel = "performDragOperation"
  /\ call.this = "B"
  /\ call.outcome = "returned"
  /\ Len(Listened) = 1 /\ Len(Defaulted) = 1
  /\ Listened[1].handler = 2
  /\ ivar = [s \in Surfaces |-> IF s = "A" THEN 1 ELSE 2]

====
